---- MODULE Spec2Model ----
(***************************************************************************)
(* Exact fixed-point decimal core of full-utils (src/src/num):             *)
(* normalizeToDecimalComponents -> convertExponentialToParts ->            *)
(* parseToFixedDecimal -> roundFixedDecimal / changeFixedDecimalScale ->   *)
(* fixedDecimalToStr.                                                      *)
(*                                                                         *)
(* A JavaScript string is a sequence of one-character strings.  A BigInt   *)
(* is its sequence of decimal digits (numbers 0..9), most significant      *)
(* first, without leading zeros (zero is <<0>>), so that no magnitude is   *)
(* ever cut off by machine integers.                                       *)
(***************************************************************************)
EXTENDS Integers, Sequences, FiniteSets, TLC

VARIABLES input, pc, fd, src, hist, text, call, out, heap

vars == <<input, pc, fd, src, hist, text, call, out, heap>>

(***************************************************************************)
(* Bounds of the model.                                                    *)
(***************************************************************************)
MaxLen == 4
MaxOpLen == 3
MaxCoef == 2
MaxExp == 3
MaxOps == 2
MaxPlaces == 2
MaxDelta == 2
MaxFormatLen == 2
MaxRound == 3
MaxExpandLen == 4
MaxPairDigits == 12

(***************************************************************************)
(* Characters and JavaScript string primitives.                            *)
(***************************************************************************)
DigitChars == <<"0", "1", "2", "3", "4", "5", "6", "7", "8", "9">>

IsDigit(c) == \E i \in 1..10 : DigitChars[i] = c

CharToDigit(c) == (CHOOSE i \in 1..10 : DigitChars[i] = c) - 1

DigitToChar(d) == DigitChars[d + 1]

Min(a, b) == IF a < b THEN a ELSE b

Max(a, b) == IF a > b THEN a ELSE b

\* '0'.repeat(n)
Repeat0(n) == [i \in 1..n |-> "0"]

\* s.slice(from) and s.slice(0, to) with 0-based, clamped, non-negative indexes
SliceFrom(s, from) == SubSeq(s, Min(from, Len(s)) + 1, Len(s))

SliceTo(s, to) == SubSeq(s, 1, Min(to, Len(s)))

\* the text from its first character that is not c
DropLeading(s, c) ==
    LET k == CHOOSE i \in 1..(Len(s) + 1) :
                 /\ i = Len(s) + 1 \/ s[i] # c
                 /\ \A j \in 1..(i - 1) : s[j] = c
    IN  SubSeq(s, k, Len(s))

\* the text up to its last character that is not c
DropTrailing(s, c) ==
    LET k == CHOOSE i \in 0..Len(s) :
                 /\ i = 0 \/ s[i] # c
                 /\ \A j \in (i + 1)..Len(s) : s[j] = c
    IN  SubSeq(s, 1, k)

\* s.replace(/^0+/, '')
StripLeadingZeros(s) == DropLeading(s, "0")

\* s.replace(/0+$/, '')
StripTrailingZeros(s) == DropTrailing(s, "0")

\* s.trim(), the blank being the white space of the inputs
TrimStart(s) == DropLeading(s, " ")

TrimEnd(s) == DropTrailing(s, " ")

Trim(s) == TrimEnd(TrimStart(s))

\* s.replace(',', '.'): a string pattern replaces the first occurrence only
ReplaceComma(s) ==
    IF \E i \in 1..Len(s) : s[i] = ","
    THEN LET k == CHOOSE i \in 1..Len(s) :
                      s[i] = "," /\ \A j \in 1..(i - 1) : s[j] # ","
         IN  [i \in 1..Len(s) |-> IF i = k THEN "." ELSE s[i]]
    ELSE s

\* s.split(sep) for the one-character separators in seps: the list of pieces
RECURSIVE SplitOn(_, _)
SplitOn(s, seps) ==
    IF \E i \in 1..Len(s) : s[i] \in seps
    THEN LET k == CHOOSE i \in 1..Len(s) :
                      s[i] \in seps /\ \A j \in 1..(i - 1) : s[j] \notin seps
         IN  <<SubSeq(s, 1, k - 1)>> \o SplitOn(SubSeq(s, k + 1, Len(s)), seps)
    ELSE <<s>>

\* index of the first character at or after position i that is not a digit
SkipDigits(s, i) ==
    CHOOSE k \in i..(Len(s) + 1) :
        /\ k = Len(s) + 1 \/ ~IsDigit(s[k])
        /\ \A j \in i..(k - 1) : IsDigit(s[j])

(***************************************************************************)
(* BigInt arithmetic on digit sequences.                                   *)
(***************************************************************************)
\* the digits without leading zeros; zero is <<0>>
BigNorm(ds) ==
    IF \A i \in 1..Len(ds) : ds[i] = 0 THEN <<0>>
    ELSE SubSeq(ds,
                CHOOSE i \in 1..Len(ds) :
                    ds[i] # 0 /\ \A j \in 1..(i - 1) : ds[j] = 0,
                Len(ds))

\* BigInt(text) of a string of decimal digits
BigInt(s) == BigNorm([i \in 1..Len(s) |-> CharToDigit(s[i])])

\* BigInt(n) of a non-negative machine integer
RECURSIVE BigOfNat(_)
BigOfNat(n) == IF n < 10 THEN <<n>> ELSE BigOfNat(n \div 10) \o <<n % 10>>

\* b.toString()
BigToString(b) == [i \in 1..Len(b) |-> DigitToChar(b[i])]

BigPad(a, n) == [i \in 1..(n - Len(a)) |-> 0] \o a

\* -1, 0, 1 as a < b, a = b, a > b: the first place where the digits differ
CmpDigits(a, b) ==
    IF a = b THEN 0
    ELSE LET k == CHOOSE i \in 1..Len(a) :
                      a[i] # b[i] /\ \A j \in 1..(i - 1) : a[j] = b[j]
         IN  IF a[k] < b[k] THEN -1 ELSE 1

BigCmp(a, b) ==
    IF Len(a) >= Len(b) THEN CmpDigits(a, BigPad(b, Len(a)))
    ELSE CmpDigits(BigPad(a, Len(b)), b)

BigGE(a, b) == BigCmp(a, b) >= 0

\* digit-wise sum of two digit rows of the same length; a carry enters place
\* i when a place to its right overflows and every place between passes it on
AddDigits(a, b) ==
    [i \in 1..Len(a) |->
        (a[i] + b[i] +
            (IF \E j \in (i + 1)..Len(a) :
                    /\ a[j] + b[j] >= 10
                    /\ \A k \in (i + 1)..(j - 1) : a[k] + b[k] = 9
             THEN 1 ELSE 0)) % 10]

BigAdd(a, b) ==
    IF Len(a) >= Len(b)
    THEN BigNorm(AddDigits(<<0>> \o a, BigPad(b, Len(a) + 1)))
    ELSE BigNorm(AddDigits(BigPad(a, Len(b) + 1), <<0>> \o b))

\* digit-wise difference a - b of two digit rows of the same length, a >= b
SubDigits(a, b) ==
    [i \in 1..Len(a) |->
        (10 + a[i] - b[i] -
            (IF \E j \in (i + 1)..Len(a) :
                    /\ a[j] < b[j]
                    /\ \A k \in (i + 1)..(j - 1) : a[k] = b[k]
             THEN 1 ELSE 0)) % 10]

BigSub(a, b) ==
    IF Len(a) >= Len(b) THEN BigNorm(SubDigits(a, BigPad(b, Len(a))))
    ELSE BigNorm(SubDigits(BigPad(a, Len(b)), b))

\* the digits of a * d for one digit d, one place longer than a: the units
\* and the tens of the digit products are two digit rows, the tens one place
\* to the left
MulDigits(a, d) ==
    AddDigits(<<0>> \o [i \in 1..Len(a) |-> (a[i] * d) % 10],
              [i \in 1..Len(a) |-> (a[i] * d) \div 10] \o <<0>>)

BigMulDigit(a, d) == BigNorm(MulDigits(a, d))

\* a * b by halving the shorter factor b:
\* a * (hi * 10^n + lo) = (a * hi) * 10^n + a * lo
RECURSIVE BigMul(_, _)
BigMul(a, b) ==
    IF Len(a) < Len(b) THEN BigMul(b, a)
    ELSE IF Len(b) = 1 THEN BigMulDigit(a, b[1])
    ELSE BigAdd(BigMul(a, SubSeq(b, 1, Len(b) \div 2))
                    \o [i \in 1..(Len(b) - Len(b) \div 2) |-> 0],
                BigMul(a, SubSeq(b, Len(b) \div 2 + 1, Len(b))))

\* <<quotient, remainder>> of a by b for a < 10 * b: one quotient digit
DivDigit(a, b) ==
    LET d == CHOOSE k \in 0..9 :
                 /\ BigGE(a, MulDigits(b, k))
                 /\ k < 9 => ~BigGE(a, MulDigits(b, k + 1))
    IN  << <<d>>, BigSub(a, MulDigits(b, d)) >>

\* long division of the digits x brought down after the remainder r < b:
\* <<quotient digits, one for each digit of x, remainder>>. The digits are
\* brought down half by half, the remainder of the first half going in
\* front of the second
RECURSIVE DivDigits(_, _, _)
DivDigits(r, x, b) ==
    IF Len(x) = 1 THEN DivDigit(r \o x, b)
    ELSE LET h == Len(x) \div 2
             hi == DivDigits(r, SubSeq(x, 1, h), b)
             lo == DivDigits(hi[2], SubSeq(x, h + 1, Len(x)), b)
         IN  <<hi[1] \o lo[1], lo[2]>>

BigDiv(a, b) == BigNorm(DivDigits(<<0>>, a, b)[1])

BigRem(a, b) == DivDigits(<<0>>, a, b)[2]

\* 10n ** BigInt(n), n >= 0
BigPow10(n) == <<1>> \o [i \in 1..n |-> 0]

(***************************************************************************)
(* Numbers as the code uses them for exponents: a machine integer or NaN.  *)
(***************************************************************************)
NaN == [nan |-> TRUE, val |-> 0]

Num(n) == [nan |-> FALSE, val |-> n]

RECURSIVE BigToNat(_)
BigToNat(b) ==
    IF b = <<>> THEN 0 ELSE BigToNat(SubSeq(b, 1, Len(b) - 1)) * 10 + b[Len(b)]

\* String(undefined), what parseInt sees for a missing piece
Undefined == <<"u", "n", "d", "e", "f", "i", "n", "e", "d">>

\* parseInt(text, 10): leading blanks, one optional sign, the longest digit
\* prefix; NaN when that prefix is empty
ParseInt(s) ==
    LET t == TrimStart(s)
        signed == t # <<>> /\ Head(t) \in {"+", "-"}
        u == IF signed THEN Tail(t) ELSE t
        k == SkipDigits(u, 1)
        magnitude == BigToNat(BigInt(SubSeq(u, 1, k - 1)))
    IN  IF k = 1 THEN NaN
        ELSE IF signed /\ Head(t) = "-" THEN Num(0 - magnitude)
        ELSE Num(magnitude)

NumMinus(x, n) == IF x.nan THEN NaN ELSE Num(x.val - n)

\* `${n}` of a number
NumToString(x) ==
    IF x.nan THEN <<"N", "a", "N">>
    ELSE IF x.val < 0 THEN <<"-">> \o BigToString(BigOfNat(0 - x.val))
    ELSE BigToString(BigOfNat(x.val))

\* isNumPZ(value): a finite number that is >= 0
isNumPZ(x) == ~x.nan /\ x.val >= 0

(***************************************************************************)
(* Results: a returned value or a thrown Error with its message.           *)
(***************************************************************************)
Return(v) == [tag |-> "ok", value |-> v]

Throw(m) == [tag |-> "throw", message |-> m]

ErrNotFinite == "Input number is not finite."
ErrEmpty == "Input string is empty."
ErrInvalid == "Invalid numeric string."
ErrUnsupported == "Unsupported input type."
ErrExponential == "Failed to parse exponential notation."

(***************************************************************************)
(* convertExponentialToParts                                               *)
(***************************************************************************)
\* /^([0-9]+)(?:\.([0-9]*))?e([+\-]?[0-9]+)$/i.exec(s): no match, or the
\* groups 1 and 3
ExponentialRegexExec(s) ==
    LET p1 == SkipDigits(s, 1)
        p2 == IF p1 <= Len(s) /\ s[p1] = "." THEN SkipDigits(s, p1 + 1) ELSE p1
        p3 == p2 + 1
        p4 == IF p3 <= Len(s) /\ s[p3] \in {"+", "-"} THEN p3 + 1 ELSE p3
    IN  IF /\ p1 > 1
           /\ p2 <= Len(s) /\ s[p2] \in {"e", "E"}
           /\ p4 <= Len(s)
           /\ SkipDigits(s, p4) = Len(s) + 1
        THEN [matched |-> TRUE, g1 |-> SubSeq(s, 1, p1 - 1),
              g3 |-> SubSeq(s, p3, Len(s))]
        ELSE [matched |-> FALSE, g1 |-> <<>>, g3 |-> <<>>]

\* NormalizeExponential without the shift of the exponent by the length of the
\* fractional part
NormalizeExponential_NoFractionShift(exponentialString) ==
    LET parts == SplitOn(exponentialString, {"e", "E"})
        coefficient == parts[1]
        exponentText == IF Len(parts) >= 2 THEN parts[2] ELSE Undefined
        cparts == SplitOn(coefficient, {"."})
        integerPart == cparts[1]
        fractionalPart == IF Len(cparts) >= 2 THEN cparts[2] ELSE <<>>
        allDigits == StripLeadingZeros(integerPart) \o fractionalPart
        exponentValue == ParseInt(exponentText)
    IN  (IF allDigits = <<>> THEN <<"0">> ELSE allDigits)
            \o <<"e">> \o NumToString(exponentValue)

\* lines 87-94: the coefficient and exponent rewritten as "<digits>e<exponent>"
NormalizeExponential(exponentialString) ==
    LET parts == SplitOn(exponentialString, {"e", "E"})
        coefficient == parts[1]
        exponentText == IF Len(parts) >= 2 THEN parts[2] ELSE Undefined
        cparts == SplitOn(coefficient, {"."})
        integerPart == cparts[1]
        fractionalPart == IF Len(cparts) >= 2 THEN cparts[2] ELSE <<>>
        allDigits == StripLeadingZeros(integerPart) \o fractionalPart
        exponentValue == NumMinus(ParseInt(exponentText), Len(fractionalPart))
    IN  (IF allDigits = <<>> THEN <<"0">> ELSE allDigits)
            \o <<"e">> \o NumToString(exponentValue)

\* ShiftDigits that counts the split position from the left
ShiftDigits_SplitFromLeft(sign, allDigits, exponent) ==
    LET digitsToLeft == 0 - exponent.val
        missingZeros == Repeat0(digitsToLeft - Len(allDigits))
    IN  IF isNumPZ(exponent)
        THEN Return([sign |-> sign,
                     integerPart |-> allDigits \o Repeat0(exponent.val),
                     fractionalPart |-> <<>>])
        ELSE IF digitsToLeft >= Len(allDigits)
        THEN Return([sign |-> sign,
                     integerPart |-> <<"0">>,
                     fractionalPart |-> missingZeros \o allDigits])
        ELSE Return([sign |-> sign,
                     integerPart |-> SliceTo(allDigits, digitsToLeft),
                     fractionalPart |-> SliceFrom(allDigits, digitsToLeft)])

\* lines 100-133: the digits of the match with the point moved by the exponent
ShiftDigits(sign, allDigits, exponent) ==
    LET digitsToLeft == 0 - exponent.val
        missingZeros == Repeat0(digitsToLeft - Len(allDigits))
        splitIndex == Len(allDigits) - digitsToLeft
    IN  IF isNumPZ(exponent)
        THEN Return([sign |-> sign,
                     integerPart |-> allDigits \o Repeat0(exponent.val),
                     fractionalPart |-> <<>>])
        ELSE IF digitsToLeft >= Len(allDigits)
        THEN Return([sign |-> sign,
                     integerPart |-> <<"0">>,
                     fractionalPart |-> missingZeros \o allDigits])
        ELSE Return([sign |-> sign,
                     integerPart |-> SliceTo(allDigits, splitIndex),
                     fractionalPart |-> SliceFrom(allDigits, splitIndex)])

\* lines 97-101: no match throws; match[1] and parseInt(match[3], 10) go on
ExpandMatch(sign, match) ==
    IF ~match.matched THEN Throw(ErrExponential)
    ELSE ShiftDigits(sign, match.g1, ParseInt(match.g3))

convertExponentialToParts(sign, exponentialString) ==
    ExpandMatch(sign, ExponentialRegexExec(NormalizeExponential(exponentialString)))

(***************************************************************************)
(* normalizeToDecimalComponents                                            *)
(***************************************************************************)
\* NumericRegexTest that lets the coefficient hold any number of points
NumericRegexTest_ManyPoints(s) ==
    LET halves == SplitOn(s, {"e", "E"})
        exponent == IF halves[2] # <<>> /\ Head(halves[2]) \in {"+", "-"}
                    THEN Tail(halves[2]) ELSE halves[2]
    IN  /\ Len(halves) <= 2
        /\ \A i \in 1..Len(halves[1]) :
               halves[1][i] = "." \/ IsDigit(halves[1][i])
        /\ Len(halves) = 2 =>
               /\ exponent # <<>>
               /\ \A i \in 1..Len(exponent) : IsDigit(exponent[i])

\* NumericRegexTest that asks for a digit in the coefficient
NumericRegexTest_NeedsDigit(s) ==
    LET p1 == SkipDigits(s, 1)
        p2 == IF p1 <= Len(s) /\ s[p1] = "." THEN p1 + 1 ELSE p1
        p3 == SkipDigits(s, p2)
        p4 == p3 + 1
        p5 == IF p4 <= Len(s) /\ s[p4] \in {"+", "-"} THEN p4 + 1 ELSE p4
    IN  /\ p1 > 1 \/ p3 > p2
        /\ \/ p3 = Len(s) + 1
           \/ /\ p3 <= Len(s) /\ s[p3] \in {"e", "E"}
              /\ p5 <= Len(s)
              /\ SkipDigits(s, p5) = Len(s) + 1

\* /^[0-9]*\.?[0-9]*(e[+\-]?[0-9]+)?$/i.test(s)
NumericRegexTest(s) ==
    LET p1 == SkipDigits(s, 1)
        p2 == IF p1 <= Len(s) /\ s[p1] = "." THEN p1 + 1 ELSE p1
        p3 == SkipDigits(s, p2)
        p4 == p3 + 1
        p5 == IF p4 <= Len(s) /\ s[p4] \in {"+", "-"} THEN p4 + 1 ELSE p4
    IN  \/ p3 = Len(s) + 1
        \/ /\ p3 <= Len(s) /\ s[p3] \in {"e", "E"}
           /\ p5 <= Len(s)
           /\ SkipDigits(s, p5) = Len(s) + 1

\* /e/i.test(s)
HasExponentMarker(s) == \E i \in 1..Len(s) : s[i] \in {"e", "E"}

\* line 44: the two pieces around the decimal point
SplitDecimal(sign, pieces) ==
    Return([sign |-> sign,
            integerPart |-> pieces[1],
            fractionalPart |-> IF Len(pieces) >= 2 THEN pieces[2] ELSE <<>>])

\* NormalizeProcessed that hands every string with an exponent marker to the
\* expander before testing the grammar
NormalizeProcessed_ExpanderFirst(sign, processed) ==
    IF HasExponentMarker(processed)
    THEN convertExponentialToParts(sign, processed)
    ELSE IF ~NumericRegexTest(processed) THEN Throw(ErrInvalid)
    ELSE SplitDecimal(sign, SplitOn(processed, {"."}))

\* lines 40-52: the grammar test, then the expander or the split on the point
NormalizeProcessed(sign, processed) ==
    IF ~NumericRegexTest(processed) THEN Throw(ErrInvalid)
    ELSE IF HasExponentMarker(processed)
    THEN convertExponentialToParts(sign, processed)
    ELSE SplitDecimal(sign, SplitOn(processed, {"."}))

\* lines 31-39: the empty string throws; a leading sign is taken off
\* NormalizeTrimmed without the test for the empty string
NormalizeTrimmed_NoEmptyCheck(trimmed) ==
    IF trimmed # <<>> /\ Head(trimmed) \in {"+", "-"}
    THEN NormalizeProcessed(IF Head(trimmed) = "-" THEN -1 ELSE 1, Tail(trimmed))
    ELSE NormalizeProcessed(1, trimmed)

NormalizeTrimmed(trimmed) ==
    IF trimmed = <<>> THEN Throw(ErrEmpty)
    ELSE IF Head(trimmed) \in {"+", "-"}
    THEN NormalizeProcessed(IF Head(trimmed) = "-" THEN -1 ELSE 1, Tail(trimmed))
    ELSE NormalizeProcessed(1, trimmed)

NormalizeString(str) == NormalizeTrimmed(ReplaceComma(Trim(str)))

NormalizeBigInt(in) ==
    Return([sign |-> IF in.negative THEN -1 ELSE 1,
            integerPart |-> BigToString(in.magnitude),
            fractionalPart |-> <<>>])

\* x.toExponential(30) of a finite x >= 0 whose exact decimal expansion
\* digits * 10^(-scale) has at most 31 significant digits: the first digit,
\* a point, 30 more digits, 'e', the sign of the exponent and the exponent
ToExponential30(digits, scale) ==
    LET significant == BigToString(digits)
        padded == significant \o Repeat0(31 - Len(significant))
        exponent == Len(significant) - 1 - scale
    IN  <<Head(padded)>> \o <<".">> \o Tail(padded) \o <<"e">>
            \o (IF digits = <<0>> \/ exponent >= 0 THEN <<"+">> ELSE <<>>)
            \o NumToString(Num(IF digits = <<0>> THEN 0 ELSE exponent))

\* NormalizeNumber that takes the sign of negative zero as negative
NormalizeNumber_SignBit(in) ==
    IF in.class # "finite" THEN Throw(ErrNotFinite)
    ELSE convertExponentialToParts(IF in.negative THEN -1 ELSE 1,
                                   ToExponential30(in.digits, in.scale))

NormalizeNumber(in) ==
    LET sign == IF in.negative /\ in.digits # <<0>> THEN -1 ELSE 1
        exponentialForm == ToExponential30(in.digits, in.scale)
    IN  IF in.class # "finite" THEN Throw(ErrNotFinite)
        ELSE convertExponentialToParts(sign, exponentialForm)

normalizeToDecimalComponents(in) ==
    IF in.kind = "bigint" THEN NormalizeBigInt(in)
    ELSE IF in.kind = "number" THEN NormalizeNumber(in)
    ELSE IF in.kind = "string" THEN NormalizeString(in.value)
    ELSE Throw(ErrUnsupported)

(***************************************************************************)
(* parseToFixedDecimal                                                     *)
(***************************************************************************)
\* BuildFixedDecimal whose scale counts the fractional digits before the
\* trailing zeros are stripped
BuildFixedDecimal_RawScale(sign, integerPart, fractionalPart) ==
    LET stripped == StripLeadingZeros(integerPart)
        integerDigits == IF stripped = <<>> THEN <<"0">> ELSE stripped
        fractionalDigits == StripTrailingZeros(fractionalPart)
        joined == integerDigits \o fractionalDigits
        combinedDigits == IF joined = <<>> THEN <<"0">> ELSE joined
    IN  Return([sign |-> sign,
                digitsInteger |-> BigInt(combinedDigits),
                scale |-> Len(fractionalPart)])

\* BuildFixedDecimal that keeps the trailing zeros of the fraction
BuildFixedDecimal_KeepFraction(sign, integerPart, fractionalPart) ==
    LET stripped == StripLeadingZeros(integerPart)
        integerDigits == IF stripped = <<>> THEN <<"0">> ELSE stripped
        joined == integerDigits \o fractionalPart
    IN  Return([sign |-> sign,
                digitsInteger |-> BigInt(joined),
                scale |-> Len(fractionalPart)])

\* lines 10-18
BuildFixedDecimal(sign, integerPart, fractionalPart) ==
    LET stripped == StripLeadingZeros(integerPart)
        integerDigits == IF stripped = <<>> THEN <<"0">> ELSE stripped
        fractionalDigits == StripTrailingZeros(fractionalPart)
        joined == integerDigits \o fractionalDigits
        combinedDigits == IF joined = <<>> THEN <<"0">> ELSE joined
    IN  Return([sign |-> sign,
                digitsInteger |-> BigInt(combinedDigits),
                scale |-> Len(fractionalDigits)])

\* lines 5-9: an error of the normalizer propagates
Destructure(parts) ==
    IF parts.tag = "throw" THEN parts
    ELSE BuildFixedDecimal(parts.value.sign, parts.value.integerPart,
                           parts.value.fractionalPart)

parseToFixedDecimal(in) == Destructure(normalizeToDecimalComponents(in))

(***************************************************************************)
(* Numeric arguments of the operations.  decimalPlaces and scaleDelta are  *)
(* JavaScript numbers; the model passes them as a count of halves, so that *)
(* 3 stands for 1.5 and -1 for -0.5.                                       *)
(***************************************************************************)
Whole(n) == 2 * n

\* Math.trunc(x)
MathTrunc(h) == IF h >= 0 THEN h \div 2 ELSE 0 - ((0 - h) \div 2)

(***************************************************************************)
(* The built-in operations that can raise inside the operations on a       *)
(* FixedDecimal, and the calls of each operation that reach one of them    *)
(* with such an argument.                                                  *)
(***************************************************************************)
ErrRange == "RangeError"

\* 10n ** BigInt(n) raises a RangeError for a negative exponent
PowRaises(n) == n < 0

\* a / b and a % b raise a RangeError for the divisor 0n
DivRaises(b) == b = <<0>>

\* '0'.repeat(n) raises a RangeError for a negative count
RepeatRaises(n) == n < 0

roundFixedDecimalRaises(source, decimalPlaces, roundMode) ==
    LET targetPrecision == Max(0, MathTrunc(decimalPlaces))
        digitsToRemove == source.scale - targetPrecision
    IN  /\ ~(source.scale <= targetPrecision)
        /\ \/ PowRaises(digitsToRemove)
           \/ DivRaises(BigPow10(digitsToRemove))
           \/ ~(roundMode = "trunc"
                  \/ BigRem(source.digitsInteger, BigPow10(digitsToRemove)) = <<0>>)
              /\ DivRaises(<<2>>)

\* changeFixedDecimalScale that computes the multiplier before it looks at
\* the sign of delta
changeFixedDecimalScaleRaises_Eager(value, scaleDelta) ==
    PowRaises(0 - MathTrunc(scaleDelta))

changeFixedDecimalScaleRaises(value, scaleDelta) ==
    LET delta == MathTrunc(scaleDelta)
    IN  /\ ~(delta = 0)
        /\ ~(delta > 0)
        /\ PowRaises(0 - delta)

fixedDecimalToStrRaises(value) ==
    LET padZeros == value.scale - Len(BigToString(value.digitsInteger))
    IN  /\ ~(value.scale = 0)
        /\ padZeros >= 0
        /\ RepeatRaises(padZeros)

(***************************************************************************)
(* roundFixedDecimal                                                       *)
(***************************************************************************)
\* roundFixedDecimal that rounds up only above the half
roundFixedDecimal_StrictHalf(source, decimalPlaces, roundMode) ==
    LET targetPrecision == Max(0, MathTrunc(decimalPlaces))
        digitsToRemove == source.scale - targetPrecision
        divisionFactor == BigPow10(digitsToRemove)
        integerPart == BigDiv(source.digitsInteger, divisionFactor)
        remainder == BigRem(source.digitsInteger, divisionFactor)
        halfThreshold == BigDiv(divisionFactor, <<2>>)
        shouldRoundUp == ~BigGE(halfThreshold, remainder)
        roundedValue == IF shouldRoundUp THEN BigAdd(integerPart, <<1>>)
                        ELSE integerPart
    IN  IF source.scale <= targetPrecision
        THEN [sign |-> source.sign,
              digitsInteger |-> source.digitsInteger,
              scale |-> source.scale]
        ELSE IF roundMode = "trunc" \/ remainder = <<0>>
        THEN [sign |-> source.sign,
              digitsInteger |-> integerPart,
              scale |-> targetPrecision]
        ELSE [sign |-> source.sign,
              digitsInteger |-> roundedValue,
              scale |-> targetPrecision]

\* roundFixedDecimal that ignores the rounding mode
roundFixedDecimal_TruncIgnored(source, decimalPlaces, roundMode) ==
    LET targetPrecision == Max(0, MathTrunc(decimalPlaces))
        digitsToRemove == source.scale - targetPrecision
        divisionFactor == BigPow10(digitsToRemove)
        integerPart == BigDiv(source.digitsInteger, divisionFactor)
        remainder == BigRem(source.digitsInteger, divisionFactor)
        halfThreshold == BigDiv(divisionFactor, <<2>>)
        shouldRoundUp == BigGE(remainder, halfThreshold)
        roundedValue == IF shouldRoundUp THEN BigAdd(integerPart, <<1>>)
                        ELSE integerPart
    IN  IF source.scale <= targetPrecision
        THEN [sign |-> source.sign,
              digitsInteger |-> source.digitsInteger,
              scale |-> source.scale]
        ELSE IF remainder = <<0>>
        THEN [sign |-> source.sign,
              digitsInteger |-> integerPart,
              scale |-> targetPrecision]
        ELSE [sign |-> source.sign,
              digitsInteger |-> roundedValue,
              scale |-> targetPrecision]

\* roundFixedDecimal whose early return takes the requested scale
roundFixedDecimal_NoopRescaled(source, decimalPlaces, roundMode) ==
    LET targetPrecision == Max(0, MathTrunc(decimalPlaces))
        digitsToRemove == source.scale - targetPrecision
        divisionFactor == BigPow10(digitsToRemove)
        integerPart == BigDiv(source.digitsInteger, divisionFactor)
        remainder == BigRem(source.digitsInteger, divisionFactor)
        halfThreshold == BigDiv(divisionFactor, <<2>>)
        shouldRoundUp == BigGE(remainder, halfThreshold)
        roundedValue == IF shouldRoundUp THEN BigAdd(integerPart, <<1>>)
                        ELSE integerPart
    IN  IF source.scale <= targetPrecision
        THEN [sign |-> source.sign,
              digitsInteger |-> source.digitsInteger,
              scale |-> targetPrecision]
        ELSE IF roundMode = "trunc" \/ remainder = <<0>>
        THEN [sign |-> source.sign,
              digitsInteger |-> integerPart,
              scale |-> targetPrecision]
        ELSE [sign |-> source.sign,
              digitsInteger |-> roundedValue,
              scale |-> targetPrecision]

\* roundFixedDecimal that does not clamp the target precision at 0
roundFixedDecimal_Unclamped(source, decimalPlaces, roundMode) ==
    LET targetPrecision == MathTrunc(decimalPlaces)
        digitsToRemove == source.scale - targetPrecision
        divisionFactor == BigPow10(digitsToRemove)
        integerPart == BigDiv(source.digitsInteger, divisionFactor)
        remainder == BigRem(source.digitsInteger, divisionFactor)
        halfThreshold == BigDiv(divisionFactor, <<2>>)
        shouldRoundUp == BigGE(remainder, halfThreshold)
        roundedValue == IF shouldRoundUp THEN BigAdd(integerPart, <<1>>)
                        ELSE integerPart
    IN  IF source.scale <= targetPrecision
        THEN [sign |-> source.sign,
              digitsInteger |-> source.digitsInteger,
              scale |-> source.scale]
        ELSE IF roundMode = "trunc" \/ remainder = <<0>>
        THEN [sign |-> source.sign,
              digitsInteger |-> integerPart,
              scale |-> targetPrecision]
        ELSE [sign |-> source.sign,
              digitsInteger |-> roundedValue,
              scale |-> targetPrecision]

\* roundFixedDecimal that rounds up only on an exact half
roundFixedDecimal_ExactHalf(source, decimalPlaces, roundMode) ==
    LET targetPrecision == Max(0, MathTrunc(decimalPlaces))
        digitsToRemove == source.scale - targetPrecision
        divisionFactor == BigPow10(digitsToRemove)
        integerPart == BigDiv(source.digitsInteger, divisionFactor)
        remainder == BigRem(source.digitsInteger, divisionFactor)
        halfThreshold == BigDiv(divisionFactor, <<2>>)
    IN  IF source.scale <= targetPrecision
        THEN [sign |-> source.sign,
              digitsInteger |-> source.digitsInteger,
              scale |-> source.scale]
        ELSE IF roundMode = "trunc" \/ remainder # halfThreshold
        THEN [sign |-> source.sign,
              digitsInteger |-> integerPart,
              scale |-> targetPrecision]
        ELSE [sign |-> source.sign,
              digitsInteger |-> BigAdd(integerPart, <<1>>),
              scale |-> targetPrecision]

\* roundFixedDecimal that rounds up whenever digits are removed
roundFixedDecimal_Ceiling(source, decimalPlaces, roundMode) ==
    LET targetPrecision == Max(0, MathTrunc(decimalPlaces))
        digitsToRemove == source.scale - targetPrecision
        divisionFactor == BigPow10(digitsToRemove)
        integerPart == BigDiv(source.digitsInteger, divisionFactor)
        remainder == BigRem(source.digitsInteger, divisionFactor)
    IN  IF source.scale <= targetPrecision
        THEN [sign |-> source.sign,
              digitsInteger |-> source.digitsInteger,
              scale |-> source.scale]
        ELSE IF roundMode = "trunc" \/ remainder = <<0>>
        THEN [sign |-> source.sign,
              digitsInteger |-> integerPart,
              scale |-> targetPrecision]
        ELSE [sign |-> source.sign,
              digitsInteger |-> BigAdd(integerPart, <<1>>),
              scale |-> targetPrecision]

roundFixedDecimal(source, decimalPlaces, roundMode) ==
    LET targetPrecision == Max(0, MathTrunc(decimalPlaces))
        digitsToRemove == source.scale - targetPrecision
        divisionFactor == BigPow10(digitsToRemove)
        integerPart == BigDiv(source.digitsInteger, divisionFactor)
        remainder == BigRem(source.digitsInteger, divisionFactor)
        halfThreshold == BigDiv(divisionFactor, <<2>>)
        shouldRoundUp == BigGE(remainder, halfThreshold)
        roundedValue == IF shouldRoundUp THEN BigAdd(integerPart, <<1>>)
                        ELSE integerPart
    IN  IF source.scale <= targetPrecision
        THEN [sign |-> source.sign,
              digitsInteger |-> source.digitsInteger,
              scale |-> source.scale]
        ELSE IF roundMode = "trunc" \/ remainder = <<0>>
        THEN [sign |-> source.sign,
              digitsInteger |-> integerPart,
              scale |-> targetPrecision]
        ELSE [sign |-> source.sign,
              digitsInteger |-> roundedValue,
              scale |-> targetPrecision]

(***************************************************************************)
(* changeFixedDecimalScale                                                 *)
(***************************************************************************)
\* changeFixedDecimalScale that multiplies the digits when the scale grows
changeFixedDecimalScale_Widening(value, scaleDelta) ==
    LET delta == MathTrunc(scaleDelta)
    IN  IF delta >= 0
        THEN [sign |-> value.sign,
              digitsInteger |-> BigMul(value.digitsInteger, BigPow10(delta)),
              scale |-> value.scale + delta]
        ELSE [sign |-> value.sign,
              digitsInteger |-> BigMul(value.digitsInteger, BigPow10(0 - delta)),
              scale |-> value.scale + delta]

changeFixedDecimalScale(value, scaleDelta) ==
    LET delta == MathTrunc(scaleDelta)
        multiplier == BigPow10(0 - delta)
    IN  IF delta = 0
        THEN [sign |-> value.sign,
              digitsInteger |-> value.digitsInteger,
              scale |-> value.scale]
        ELSE IF delta > 0
        THEN [sign |-> value.sign,
              digitsInteger |-> value.digitsInteger,
              scale |-> value.scale + delta]
        ELSE [sign |-> value.sign,
              digitsInteger |-> BigMul(value.digitsInteger, multiplier),
              scale |-> value.scale + delta]

(***************************************************************************)
(* fixedDecimalToStr                                                       *)
(***************************************************************************)
\* fixedDecimalToStr that writes the leading "0." only when a zero is missing
fixedDecimalToStr_PadStrict(value) ==
    LET signSymbol == IF value.sign < 0 THEN <<"-">> ELSE <<>>
        allDigitsString == BigToString(value.digitsInteger)
        padZeros == value.scale - Len(allDigitsString)
        integerBoundary == Len(allDigitsString) - value.scale
        integerText == SliceTo(allDigitsString, integerBoundary)
        fractionalText == SliceFrom(allDigitsString, integerBoundary)
    IN  IF value.scale = 0 THEN signSymbol \o allDigitsString
        ELSE IF padZeros > 0
        THEN signSymbol \o <<"0", ".">> \o Repeat0(padZeros) \o allDigitsString
        ELSE signSymbol \o integerText \o <<".">> \o fractionalText

\* fixedDecimalToStr that leaves out the zeros between the point and the digits
fixedDecimalToStr_NoPad(value) ==
    LET signSymbol == IF value.sign < 0 THEN <<"-">> ELSE <<>>
        allDigitsString == BigToString(value.digitsInteger)
        padZeros == value.scale - Len(allDigitsString)
        integerBoundary == Len(allDigitsString) - value.scale
        integerText == SliceTo(allDigitsString, integerBoundary)
        fractionalText == SliceFrom(allDigitsString, integerBoundary)
    IN  IF value.scale = 0 THEN signSymbol \o allDigitsString
        ELSE IF padZeros >= 0
        THEN signSymbol \o <<"0", ".">> \o <<>> \o allDigitsString
        ELSE signSymbol \o integerText \o <<".">> \o fractionalText

\* fixedDecimalToStr that writes no sign
fixedDecimalToStr_Unsigned(value) ==
    LET allDigitsString == BigToString(value.digitsInteger)
        padZeros == value.scale - Len(allDigitsString)
        integerBoundary == Len(allDigitsString) - value.scale
    IN  IF value.scale = 0 THEN allDigitsString
        ELSE IF padZeros >= 0
        THEN <<"0", ".">> \o Repeat0(padZeros) \o allDigitsString
        ELSE SliceTo(allDigitsString, integerBoundary) \o <<".">>
                 \o SliceFrom(allDigitsString, integerBoundary)

fixedDecimalToStr(value) ==
    LET signSymbol == IF value.sign < 0 THEN <<"-">> ELSE <<>>
        allDigitsString == BigToString(value.digitsInteger)
        padZeros == value.scale - Len(allDigitsString)
        integerBoundary == Len(allDigitsString) - value.scale
        integerText == SliceTo(allDigitsString, integerBoundary)
        fractionalText == SliceFrom(allDigitsString, integerBoundary)
    IN  IF value.scale = 0 THEN signSymbol \o allDigitsString
        ELSE IF padZeros >= 0
        THEN signSymbol \o <<"0", ".">> \o Repeat0(padZeros) \o allDigitsString
        ELSE signSymbol \o integerText \o <<".">> \o fractionalText

(***************************************************************************)
(* fixedDecimalToNum, formatToNum, numNormalize                            *)
(*                                                                         *)
(* A JavaScript number that Number(text) returns is written as the decimal *)
(* it denotes: negative (so that -0 is kept apart from 0), the digits      *)
(* without leading zeros and without trailing fractional zeros, and the    *)
(* count of fractional digits.  Decimals of at most 15 significant digits  *)
(* denote different numbers whenever they differ, and every text the       *)
(* specification SpecFormat hands to Number is that short.                 *)
(***************************************************************************)
\* Number(text) for text of the form [-]digits[.digits]
NumberOfString(str) ==
    LET negative == str # <<>> /\ Head(str) = "-"
        body == IF negative THEN Tail(str) ELSE str
        pieces == SplitOn(body, {"."})
        fraction == IF Len(pieces) >= 2 THEN StripTrailingZeros(pieces[2])
                    ELSE <<>>
    IN  [negative |-> negative,
         digits |-> BigInt(pieces[1] \o fraction),
         scale |-> Len(fraction)]

\* the number literal 0
NumberZero == [negative |-> FALSE, digits |-> <<0>>, scale |-> 0]

fixedDecimalToNum(value) == NumberOfString(fixedDecimalToStr(value))

\* an optional argument: absent, or a number given as its count of halves
Absent == [given |-> FALSE, val |-> 0]

Given(h) == [given |-> TRUE, val |-> h]

\* an absent boolean argument
AbsentFlag == [given |-> FALSE, val |-> FALSE]

\* round: number = 1
DefaultRound(round) == IF round.given THEN round.val ELSE Whole(1)

\* throwError: boolean = false
DefaultThrowError(throwError) == throwError.given /\ throwError.val

\* FormatParsed that rounds from round = 1 on
FormatParsed_RoundFromOne(parsed, round) ==
    IF round >= Whole(1)
    THEN fixedDecimalToNum(roundFixedDecimal(parsed, round, "half-up"))
    ELSE fixedDecimalToNum(parsed)

\* the value formatToNum returns once parseToFixedDecimal has returned
FormatParsed(parsed, round) ==
    IF round > Whole(1)
    THEN fixedDecimalToNum(roundFixedDecimal(parsed, round, "half-up"))
    ELSE fixedDecimalToNum(parsed)

\* an error of parseToFixedDecimal leaves formatToNum as it is
FormatAttempt(attempt, round) ==
    IF attempt.tag = "throw" THEN attempt
    ELSE Return(FormatParsed(attempt.value, round))

formatToNum(value, round) ==
    FormatAttempt(parseToFixedDecimal(value), DefaultRound(round))

\* NumNormalizeCatch that swallows the error whatever throwError is
NumNormalizeCatch_Swallow(attempt, throwError) ==
    IF attempt.tag = "ok" THEN attempt ELSE Return(NumberZero)

\* the catch block of numNormalize
NumNormalizeCatch(attempt, throwError) ==
    IF attempt.tag = "ok" THEN attempt
    ELSE IF throwError THEN attempt
    ELSE Return(NumberZero)

numNormalize(value, round, throwError) ==
    NumNormalizeCatch(FormatAttempt(parseToFixedDecimal(value), DefaultRound(round)),
                      DefaultThrowError(throwError))

(***************************************************************************)
(* Unit converters (src/src/units).  The product v * factor is written as  *)
(* the decimal it denotes, the factor being a power of ten; the rounding   *)
(* of the floating-point multiplication is left out.                       *)
(***************************************************************************)
UpperChars == <<"A", "B", "C", "D", "E", "F", "G", "H", "I", "J", "K", "L", "M",
                "N", "O", "P", "Q", "R", "S", "T", "U", "V", "W", "X", "Y", "Z">>

LowerChars == <<"a", "b", "c", "d", "e", "f", "g", "h", "i", "j", "k", "l", "m",
                "n", "o", "p", "q", "r", "s", "t", "u", "v", "w", "x", "y", "z">>

ToLowerCase(s) ==
    [i \in 1..Len(s) |->
        IF \E k \in 1..26 : UpperChars[k] = s[i]
        THEN LowerChars[CHOOSE k \in 1..26 : UpperChars[k] = s[i]]
        ELSE s[i]]

\* s.replace(/\s+/g, '')
RemoveSpaces(s) == SelectSeq(s, LAMBDA c : c # " ")

EndsWith(s, suffix) ==
    /\ Len(s) >= Len(suffix)
    /\ SubSeq(s, Len(s) - Len(suffix) + 1, Len(s)) = suffix

\* s.replace(/(?:\/?s|hash(?:es)?)$/i, ''): the leftmost match that ends the
\* string is removed
StripRateSuffix(s) ==
    LET cut == IF EndsWith(s, <<"h", "a", "s", "h", "e", "s">>) THEN 6
               ELSE IF EndsWith(s, <<"h", "a", "s", "h">>) THEN 4
               ELSE IF EndsWith(s, <<"/", "s">>) THEN 2
               ELSE IF EndsWith(s, <<"s">>) THEN 1
               ELSE 0
    IN  SubSeq(s, 1, Len(s) - cut)

normalizeUnit(u) == StripRateSuffix(RemoveSpaces(ToLowerCase(Trim(u))))

\* unit = ''
DefaultUnit(unit) == IF unit.given THEN unit.val ELSE <<>>

\* FACTOR_H of toH: each factor as the exponent of its power of ten
FACTOR_H == [h |-> 0, k |-> 3, m |-> 6, g |-> 9, t |-> 12, p |-> 15, e |-> 18]

\* FACTOR of toGH: each factor as the exponent of its power of ten
FACTOR == [h |-> -9, k |-> -6, m |-> -3, g |-> 0, t |-> 3, p |-> 6, e |-> 9]

\* table[c] ?? 1, the factor 1 being ten to the power 0
FactorOf(table, c) == IF c \in DOMAIN table THEN table[c] ELSE 0

\* typeof value === 'number' && Number.isFinite(value), for a number written
\* as a decimal: it is below the largest double
isNum(v) == Len(v.digits) - v.scale <= 308

TrailingZeros(ds) ==
    CHOOSE t \in 0..Len(ds) :
        /\ \A i \in (Len(ds) - t + 1)..Len(ds) : ds[i] = 0
        /\ t < Len(ds) => ds[Len(ds) - t] # 0

\* v * 10^e
NumberTimesPow10(v, e) ==
    IF v.digits = <<0>> THEN [v EXCEPT !.scale = 0]
    ELSE IF v.scale - e <= 0
    THEN [v EXCEPT !.digits = v.digits \o [i \in 1..(e - v.scale) |-> 0],
                   !.scale = 0]
    ELSE LET t == IF TrailingZeros(v.digits) < v.scale - e
                  THEN TrailingZeros(v.digits) ELSE v.scale - e
         IN  [v EXCEPT !.digits = SubSeq(v.digits, 1, Len(v.digits) - t),
                       !.scale = v.scale - e - t]

\* Object.is(out, -0) ? 0 : out
PositiveZero(n) == IF n.digits = <<0>> /\ n.negative THEN NumberZero ELSE n

\* toH and toGH after formatToNum(value): the converters differ in the
\* default prefix, the factor table and the name in the message
ConvertParsed(attempt, unit, defaultPrefix, table, name) ==
    IF attempt.tag = "throw" THEN attempt
    ELSE IF ~isNum(attempt.value) THEN Return(NumberZero)
    ELSE LET u == normalizeUnit(DefaultUnit(unit))
             c == IF u # <<>> THEN u[1] ELSE defaultPrefix
             result == NumberTimesPow10(attempt.value, FactorOf(table, c))
         IN  IF ~isNum(result) THEN Throw(name \o ": result is not finite")
             ELSE Return(PositiveZero(result))

toH(value, unit) == ConvertParsed(formatToNum(value, Absent), unit, "h", FACTOR_H, "toH")

toGH(value, unit) == ConvertParsed(formatToNum(value, Absent), unit, "g", FACTOR, "toGH")

(***************************************************************************)
(* Inputs.                                                                 *)
(***************************************************************************)
StringsOver(alphabet, n) == UNION {[1..k -> alphabet] : k \in 0..n}

Alphabet == {"0", "1", "5", ".", ",", "e", "E", "+", "-", " ", "x"}

OpAlphabet == {"0", "1", "5", ".", "-"}

CoefAlphabet == {"0", "1", "5"}

\* <coefficient digits>[.<digits>]<e|E>[+|-]<exponent digits>
ExponentStrings ==
    { sg \o ip \o pt \o <<mk>> \o es \o BigToString(BigOfNat(ex)) :
        sg \in {<<>>, <<"-">>}, ip \in StringsOver(CoefAlphabet, MaxCoef) \ {<<>>},
        pt \in {<<>>} \cup { <<".">> \o fp : fp \in StringsOver(CoefAlphabet, MaxCoef) },
        mk \in {"e", "E"}, es \in {<<>>, <<"+">>, <<"-">>}, ex \in 0..MaxExp }

NamedStrings ==
    { <<"1", ".", "2", ".", "3", "e", "5">>,
      <<"1", "2", ".", "3", "4", ".", "5", "6">>,
      <<"1", ".", "2", "3", "e", "5">>,
      <<"1", "2", "3", "0", "0", "0">>,
      <<"4", ".", "5", "e", "-", "3">>,
      <<"0", ".", "0", "0", "4", "5">>,
      <<"-", "0">>,
      <<"0">>,
      <<"-", "0", ".", "0", "0">>,
      <<"-", "0", "e", "3">>,
      <<"0", "0", "0", "4", "5", ".", "6", "7", "0", "0", "0">>,
      <<"1", "2", "3", ".", "4", "5", "6">>,
      <<"-", "1", ".", "2", "3", "e", "-", "4">>,
      <<"1", "2", "3", "4", "5", "6", "7", "8", "9", "0", "1", "2", "3", "4", "5", "6", "7", "8", "9", "0", "1", "2", "3", "4", "5", "6", "7", "8", "9", "0">>,
      <<"-", "0", ".", "0", "0", "0", "0", "0", "0", "0", "0", "0", "0", "0", "0", "0", "0", "0", "0", "0", "0", "0", "0", "0", "0", "0", "0", "0", "0", "0", "0", "0", "1">>,
      <<" ", "+", "1", ",", "2", "5", "0", " ">>,
      <<"1", "e", "5", "e", "6">> }

NamedOperands ==
    { <<"1", "2", "3", ".", "4", "5">>,
      <<"1", ".", "2", "5">>,
      <<"-", "1", ".", "2", "5">>,
      <<"1", ".", "2", "3", "9">>,
      <<"1", ".", "9", "9", "9">>,
      <<"9", ".", "9", "9">>,
      <<"-", "0", ".", "4">>,
      <<"0", ".", "0", "0", "5">>,
      <<"1", ".", "2", "3", "5">>,
      <<"-", "1", ".", "2", "3", "5">>,
      <<"1", "2", "3", "4", "5", "6", "7", "8", "9", "0", "1", "2", "3", "4", "5", "6", "7", "8", "9", "0", "1", "2", "3", "4", "5", "6", "7", "8", "9", "0", ".", "5", "5">> }

BigIntInputs ==
    { [kind |-> "bigint", negative |-> ng, magnitude |-> BigInt(m)] :
        ng \in BOOLEAN,
        m \in (StringsOver(CoefAlphabet, MaxCoef) \ {<<>>})
                \cup {<<"1", "2", "3", "4", "5", "6", "7", "8", "9", "0", "1", "2", "3", "4", "5", "6", "7", "8", "9", "0", "1", "2", "3", "4", "5", "6", "7", "8", "9", "0">>} } \
    { [kind |-> "bigint", negative |-> TRUE, magnitude |-> <<0>>] }

\* finite numbers are given by their exact decimal expansion: integers, and
\* the binary fractions 0.5, 1.5, 0.25, 0.125
FiniteNumbers ==
    { [kind |-> "number", class |-> "finite", negative |-> ng,
       digits |-> BigOfNat(m[1]), scale |-> m[2]] :
        ng \in BOOLEAN,
        m \in { <<n, 0>> : n \in {0, 1, 7, 10, 42, 100, 1500} }
                \cup { <<5, 1>>, <<15, 1>>, <<25, 2>>, <<125, 3>> } }

NonFiniteNumbers ==
    { [kind |-> "number", class |-> c, negative |-> c = "-Infinity",
       digits |-> <<0>>, scale |-> 0] : c \in {"NaN", "Infinity", "-Infinity"} }

OtherInputs ==
    { [kind |-> k] : k \in {"undefined", "null", "boolean", "object"} }

StringInput(s) == [kind |-> "string", value |-> s]

ParseInputs ==
    { StringInput(s) : s \in StringsOver(Alphabet, MaxLen) \cup NamedStrings
                                \cup ExponentStrings }
        \cup BigIntInputs \cup FiniteNumbers \cup NonFiniteNumbers \cup OtherInputs

OpInputs ==
    { StringInput(s) : s \in StringsOver(OpAlphabet, MaxOpLen) \cup NamedOperands }

\* magnitudes of the pairs of FixedDecimals that are rounded side by side:
\* the small ones and the neighbours of a half and of a carry
PairDigits ==
    { BigOfNat(n) : n \in (0..MaxPairDigits)
                          \cup {49, 50, 51, 99, 100, 149, 150, 151} }

\* two FixedDecimals of the same sign and scale, the first not the larger
PairInputs ==
    { [kind |-> "pair",
       a |-> [sign |-> sg, digitsInteger |-> xy[1], scale |-> sc],
       b |-> [sign |-> sg, digitsInteger |-> xy[2], scale |-> sc]] :
         sg \in {1, -1}, sc \in 0..MaxPlaces,
         xy \in { p \in PairDigits \X PairDigits : BigGE(p[2], p[1]) } }

ExpandAlphabet == {"0", "1", ".", "e", "-", "x"}

\* the strings convertExponentialToParts is called with directly
NamedExponentials ==
    { <<"1", ".", "2", "3", "e", "5">>,
      <<"4", ".", "5", "e", "-", "3">>,
      <<"7", ".", "0", "0", "e", "0">>,
      <<"0", "0", "0", "9", ".", "5", "0", "0", "e", "2">>,
      <<"1", ".", "2", "3", "4", "e", "-", "2">>,
      <<"1", "2", "3", "4", "5", "E", "-", "2">>,
      <<"1", ".", "2", ".", "3", "e", "5">>,
      <<"1", "e", "5", "e", "6">>,
      <<"1", "e", "5", "x">>,
      <<"-", "1", "e", "5">>,
      <<"1", "e", "+", "5">> }

ExpandInputs ==
    { StringInput(s) : s \in StringsOver(ExpandAlphabet, MaxExpandLen)
                                \cup NamedExponentials
                                \cup { e \in ExponentStrings : Head(e) # "-" } }

NamedNumerals ==
    { <<"1", "2", "3", ".", "4", "5", "6">>,
      <<"-", "1", ".", "2", "3", "5">>,
      <<"1", "0", "0", "0", ".", "5", "5", "5">>,
      <<"0", ".", "0", "3", "4">>,
      <<"1", ".", "0", "0", "5">>,
      <<"1", ".", "2", "5", "e", "2">>,
      <<"2", ".", "5", "0">>,
      <<"-", "0">>,
      <<"1", "2", ".", "3", "4", ".", "5", "6">> }

\* what the composites are called with: every value has at most 15
\* significant digits
FormatInputs ==
    { StringInput(s) : s \in StringsOver(Alphabet, MaxFormatLen) \cup NamedNumerals }
        \cup { b \in BigIntInputs : Len(b.magnitude) <= 15 }
        \cup FiniteNumbers \cup NonFiniteNumbers \cup OtherInputs

RoundArgs == {Absent} \cup { Given(Whole(r)) : r \in -1..MaxRound } \cup {Given(3)}

ThrowErrorArgs == {AbsentFlag, Given(FALSE), Given(TRUE)}

\* a fourth argument, which numNormalize does not declare
SurplusArgs == {Absent, Given(Whole(5))}

AbsentUnit == [given |-> FALSE, val |-> <<>>]

GivenUnit(s) == [given |-> TRUE, val |-> s]

UnitArgs ==
    {AbsentUnit}
        \cup { GivenUnit(s) :
                 s \in { <<>>, <<"H">>, <<"k", "H">>, <<"M", "H">>, <<"G", "H">>,
                         <<"T">>, <<"P", "H">>, <<"E", "H">>, <<"x">>, <<"s">>,
                         <<" ", "m", "h", "/", "s", " ">>,
                         <<"k", "h", "a", "s", "h", "e", "s">>,
                         <<"k", "h", "a", "s", "h", " ", "/", " ", "s">> } }

(***************************************************************************)
(* The state machine: one input is parsed, the value is then rounded and   *)
(* rescaled any number of times (at most MaxOps), and finally rendered.    *)
(***************************************************************************)
None == [tag |-> "none"]

\* The FixedDecimal objects created so far, in order of creation: an object
\* is its place in objs, cur is the object the last call returned and arg the
\* object that call was given.
EmptyHeap == [objs |-> <<>>, cur |-> 0, arg |-> 0]

\* NewObject that hands back the object it was given when nothing changes
NewObject_Reuse(h, value) ==
    IF h.cur > 0 /\ h.objs[h.cur] = value THEN [h EXCEPT !.arg = h.cur]
    ELSE [objs |-> Append(h.objs, value), cur |-> Len(h.objs) + 1, arg |-> h.cur]

\* return { ...source } and return { sign: ..., digitsInteger: ..., scale: ... }:
\* an object literal is a new object, no object that exists is written
NewObject(h, value) ==
    [objs |-> Append(h.objs, value), cur |-> Len(h.objs) + 1, arg |-> h.cur]

Start(inputs) ==
    /\ input \in inputs
    /\ pc = "start"
    /\ fd = None
    /\ src = None
    /\ hist = <<>>
    /\ text = <<>>
    /\ call = None
    /\ out = None
    /\ heap = EmptyHeap

Init == Start(ParseInputs)

InitOps == Start(OpInputs)

Parse ==
    /\ pc = "start"
    /\ fd' = parseToFixedDecimal(input)
    /\ pc' = IF fd'.tag = "ok" THEN "value" ELSE "threw"
    /\ heap' = IF fd'.tag = "ok" THEN NewObject(heap, fd'.value) ELSE heap
    /\ UNCHANGED <<input, src, hist, text, call, out>>

PlacesArgs == { Whole(p) : p \in -1..MaxPlaces } \cup {-1, 3}

DeltaArgs == { Whole(d) : d \in (0 - MaxDelta)..MaxDelta } \cup {-1, 3}

Round ==
    /\ pc = "value"
    /\ Len(hist) < MaxOps
    /\ \E decimalPlaces \in PlacesArgs, roundMode \in {"half-up", "trunc"} :
        /\ fd' = IF roundFixedDecimalRaises(fd.value, decimalPlaces, roundMode)
                 THEN Throw(ErrRange)
                 ELSE Return(roundFixedDecimal(fd.value, decimalPlaces, roundMode))
        /\ hist' = Append(hist, [name |-> "round", arg |-> decimalPlaces,
                                 mode |-> roundMode])
    /\ src' = fd
    /\ pc' = IF fd'.tag = "ok" THEN pc ELSE "threw"
    /\ heap' = IF fd'.tag = "ok" THEN NewObject(heap, fd'.value) ELSE heap
    /\ UNCHANGED <<input, text, call, out>>

ChangeScale ==
    /\ pc = "value"
    /\ Len(hist) < MaxOps
    /\ \E scaleDelta \in DeltaArgs :
        /\ fd' = IF changeFixedDecimalScaleRaises(fd.value, scaleDelta)
                 THEN Throw(ErrRange)
                 ELSE Return(changeFixedDecimalScale(fd.value, scaleDelta))
        /\ hist' = Append(hist, [name |-> "changeScale", arg |-> scaleDelta,
                                 mode |-> "none"])
    /\ src' = fd
    /\ pc' = IF fd'.tag = "ok" THEN pc ELSE "threw"
    /\ heap' = IF fd'.tag = "ok" THEN NewObject(heap, fd'.value) ELSE heap
    /\ UNCHANGED <<input, text, call, out>>

Render ==
    /\ pc = "value"
    /\ text' = IF fixedDecimalToStrRaises(fd.value) THEN <<>>
               ELSE fixedDecimalToStr(fd.value)
    /\ pc' = IF fixedDecimalToStrRaises(fd.value) THEN "threw" ELSE "rendered"
    /\ UNCHANGED <<input, fd, src, hist, call, out, heap>>

InitFormat == Start(FormatInputs)

FormatToNum ==
    /\ pc = "start"
    /\ \E round \in RoundArgs :
        /\ call' = [name |-> "formatToNum", round |-> round,
                    throwError |-> AbsentFlag, fallback |-> Absent]
        /\ out' = formatToNum(input, round)
    /\ pc' = IF out'.tag = "ok" THEN "returned" ELSE "threw"
    /\ UNCHANGED <<input, fd, src, hist, text, heap>>

NumNormalize ==
    /\ pc = "start"
    /\ \E round \in RoundArgs, throwError \in ThrowErrorArgs, fallback \in SurplusArgs :
        /\ call' = [name |-> "numNormalize", round |-> round,
                    throwError |-> throwError, fallback |-> fallback]
        /\ out' = numNormalize(input, round, throwError)
    /\ pc' = IF out'.tag = "ok" THEN "returned" ELSE "threw"
    /\ UNCHANGED <<input, fd, src, hist, text, heap>>

ToH ==
    /\ pc = "start"
    /\ \E unit \in UnitArgs :
        /\ call' = [name |-> "toH", unit |-> unit]
        /\ out' = toH(input, unit)
    /\ pc' = IF out'.tag = "ok" THEN "returned" ELSE "threw"
    /\ UNCHANGED <<input, fd, src, hist, text, heap>>

ToGH ==
    /\ pc = "start"
    /\ \E unit \in UnitArgs :
        /\ call' = [name |-> "toGH", unit |-> unit]
        /\ out' = toGH(input, unit)
    /\ pc' = IF out'.tag = "ok" THEN "returned" ELSE "threw"
    /\ UNCHANGED <<input, fd, src, hist, text, heap>>

InitPair == Start(PairInputs)

\* roundFixedDecimal called on both values of a pair with the same arguments
RoundPair ==
    /\ pc = "start"
    /\ \E decimalPlaces \in PlacesArgs, roundMode \in {"half-up", "trunc"} :
        /\ call' = [name |-> "roundFixedDecimal", arg |-> decimalPlaces,
                    mode |-> roundMode]
        /\ out' = IF \/ roundFixedDecimalRaises(input.a, decimalPlaces, roundMode)
                      \/ roundFixedDecimalRaises(input.b, decimalPlaces, roundMode)
                  THEN Throw(ErrRange)
                  ELSE Return([a |-> roundFixedDecimal(input.a, decimalPlaces, roundMode),
                               b |-> roundFixedDecimal(input.b, decimalPlaces, roundMode)])
    /\ pc' = IF out'.tag = "ok" THEN "returned" ELSE "threw"
    /\ UNCHANGED <<input, fd, src, hist, text, heap>>

NextPair == RoundPair

\* normalizeToDecimalComponents called on its own
Normalize ==
    /\ pc = "start"
    /\ call' = [name |-> "normalizeToDecimalComponents"]
    /\ out' = normalizeToDecimalComponents(input)
    /\ pc' = IF out'.tag = "ok" THEN "returned" ELSE "threw"
    /\ UNCHANGED <<input, fd, src, hist, text, heap>>

NextNormalize == Normalize

InitExpand == Start(ExpandInputs)

\* convertExponentialToParts called directly with a sign and a string
Expand ==
    /\ pc = "start"
    /\ \E sign \in {1, -1} :
        /\ call' = [name |-> "convertExponentialToParts", sign |-> sign]
        /\ out' = convertExponentialToParts(sign, input.value)
    /\ pc' = IF out'.tag = "ok" THEN "returned" ELSE "threw"
    /\ UNCHANGED <<input, fd, src, hist, text, heap>>

NextExpand == Expand

NextUnits == ToH \/ ToGH

NextFormat == FormatToNum \/ NumNormalize

NextParse == Parse \/ Render

Next == Parse \/ Round \/ ChangeScale \/ Render

Spec == Init /\ [][NextParse]_vars

SpecOps == InitOps /\ [][Next]_vars

SpecPair == InitPair /\ [][NextPair]_vars

SpecNormalize == Init /\ [][NextNormalize]_vars

SpecExpand == InitExpand /\ [][NextExpand]_vars

SpecUnits == InitFormat /\ [][NextUnits]_vars

SpecFormat == InitFormat /\ [][NextFormat]_vars

(***************************************************************************)
(* Vocabulary of the properties.                                           *)
(***************************************************************************)
AllDigits(s) == \A i \in 1..Len(s) : IsDigit(s[i])

CountOf(s, chars) == Cardinality({ i \in 1..Len(s) : s[i] \in chars })

LastOp == hist[Len(hist)]

Parsed == pc # "start" /\ hist = <<>>

ParsedString == Parsed /\ input.kind = "string"

Rounded == pc = "value" /\ hist # <<>> /\ LastOp.name = "round"

Rescaled == pc = "value" /\ hist # <<>> /\ LastOp.name = "changeScale"

IsWhole(h) == h % 2 = 0

\* a and b denote the same number sign * digits * 10^(-scale)
SameValue(a, b) ==
    LET m == Min(a.scale, b.scale)
    IN  /\ BigMul(a.digitsInteger, BigPow10(b.scale - m))
             = BigMul(b.digitsInteger, BigPow10(a.scale - m))
        /\ a.digitsInteger # <<0>> => a.sign = b.sign

\* q is the integer quotient of d by p: q * p <= d < (q + 1) * p
IsQuotient(q, d, p) ==
    /\ BigGE(d, BigMul(q, p))
    /\ ~BigGE(d, BigMul(BigAdd(q, <<1>>), p))

\* the text without its leading sign character, if any
Unsigned(s) == IF s # <<>> /\ Head(s) \in {"+", "-"} THEN Tail(s) ELSE s

\* [-]digits[.digits] without redundant zeros
Canonical(s) ==
    LET body == IF s # <<>> /\ Head(s) = "-" THEN Tail(s) ELSE s
        pieces == SplitOn(body, {"."})
    IN  /\ Len(pieces) \in {1, 2}
        /\ pieces[1] # <<>> /\ AllDigits(pieces[1])
        /\ Len(pieces[1]) > 1 => Head(pieces[1]) # "0"
        /\ Len(pieces) = 2 =>
              /\ pieces[2] # <<>> /\ AllDigits(pieces[2])
              /\ pieces[2][Len(pieces[2])] # "0"

\* [sign]digits[.digits]: the plain decimal strings
PlainDecimal(s) ==
    LET pieces == SplitOn(Unsigned(s), {"."})
    IN  /\ Len(pieces) \in {1, 2}
        /\ pieces[1] # <<>> /\ AllDigits(pieces[1])
        /\ Len(pieces) = 2 => pieces[2] # <<>> /\ AllDigits(pieces[2])

PlainInteger(s) == SplitOn(Unsigned(s), {"."})[1]

PlainFraction(s) ==
    LET pieces == SplitOn(Unsigned(s), {"."})
    IN  IF Len(pieces) = 2 THEN pieces[2] ELSE <<>>

\* [sign]digits[.digits](e|E)[+|-]digits
ExponentForm(s) ==
    LET halves == SplitOn(Unsigned(s), {"e", "E"})
    IN  /\ Len(halves) = 2
        /\ PlainDecimal(halves[1]) /\ halves[1] = Unsigned(halves[1])
        /\ Unsigned(halves[2]) # <<>> /\ AllDigits(Unsigned(halves[2]))

\* the plain decimal string with the decimal point of the coefficient moved
\* by the exponent
ShiftedPlain(s) ==
    LET halves == SplitOn(Unsigned(s), {"e", "E"})
        ip == PlainInteger(halves[1])
        all == ip \o PlainFraction(halves[1])
        shift == BigToNat(BigInt(Unsigned(halves[2])))
        point == IF halves[2] # <<>> /\ Head(halves[2]) = "-"
                 THEN Len(ip) - shift ELSE Len(ip) + shift
        signText == IF s = Unsigned(s) THEN <<>> ELSE <<Head(s)>>
    IN  signText \o
        (IF point <= 0 THEN <<"0", ".">> \o Repeat0(0 - point) \o all
         ELSE IF point >= Len(all) THEN all \o Repeat0(point - Len(all))
         ELSE SubSeq(all, 1, point) \o <<".">> \o SubSeq(all, point + 1, Len(all)))

\* digits[.digits*](e|E)[+|-]digits, the strings the expander is made for;
\* the point may be the last character of the coefficient
ExpanderShape(s) ==
    LET halves == SplitOn(s, {"e", "E"})
        pieces == SplitOn(halves[1], {"."})
    IN  /\ Len(halves) = 2
        /\ Len(pieces) \in {1, 2}
        /\ pieces[1] # <<>> /\ AllDigits(pieces[1])
        /\ Len(pieces) = 2 => AllDigits(pieces[2])
        /\ Unsigned(halves[2]) # <<>> /\ AllDigits(Unsigned(halves[2]))

\* the exponent a string of that shape writes, as an integer
ExponentOf(s) ==
    LET written == SplitOn(s, {"e", "E"})[2]
        magnitude == BigToNat(BigInt(Unsigned(written)))
    IN  IF Head(written) = "-" THEN 0 - magnitude ELSE magnitude

\* a string without a digit in its coefficient: after trimming, an optional
\* sign, then nothing or one separator, then an optional exponent
DigitLess(s) ==
    LET halves == SplitOn(Unsigned(ReplaceComma(Trim(s))), {"e", "E"})
    IN  /\ Trim(s) # <<>>
        /\ halves[1] \in {<<>>, <<".">>}
        /\ Len(halves) <= 2
        /\ Len(halves) = 2 =>
              Unsigned(halves[2]) # <<>> /\ AllDigits(Unsigned(halves[2]))

\* what the normalizer looks at: trimmed, first comma replaced, sign removed
Processed(s) == Unsigned(ReplaceComma(Trim(s)))

\* digits*[.]digits*(e|E)[+|-]digits+, decided by counting
ExponentGrammar(s) ==
    LET halves == SplitOn(s, {"e", "E"})
    IN  /\ Len(halves) = 2
        /\ CountOf(halves[1], {"."}) <= 1
        /\ \A i \in 1..Len(halves[1]) : halves[1][i] = "." \/ IsDigit(halves[1][i])
        /\ Unsigned(halves[2]) # <<>> /\ AllDigits(Unsigned(halves[2]))

\* digits*[.]digits*, decided by counting
PlainGrammar(s) ==
    /\ CountOf(s, {"."}) <= 1
    /\ \A i \in 1..Len(s) : s[i] = "." \/ IsDigit(s[i])

\* a composite has been called and has returned or thrown
Called(name) == pc \in {"returned", "threw"} /\ call.name = name

\* parsing the input of the call raises an error
ParseFails == parseToFixedDecimal(input).tag = "throw"

\* the number an optional numeric argument stands for, 0 when absent
NumberOfArg(arg) ==
    IF arg.given THEN [negative |-> FALSE, digits |-> BigOfNat(arg.val \div 2), scale |-> 0]
    ELSE NumberZero

\* the number n is the value of the FixedDecimal v, written without trailing
\* fractional zeros
Denotes(n, v) ==
    /\ n.negative = (v.sign = -1)
    /\ n.scale <= v.scale
    /\ BigMul(n.digits, BigPow10(v.scale - n.scale)) = v.digitsInteger
    /\ n.scale > 0 => n.digits[Len(n.digits)] # 0

\* no trailing fractional zero, and zero held as digits = 0 with scale = 0
Normalized(v) ==
    /\ v.scale > 0 => v.digitsInteger[Len(v.digitsInteger)] # 0
    /\ v.digitsInteger = <<0>> => v.scale = 0

(***************************************************************************)
(* Properties.                                                             *)
(***************************************************************************)

\* C1: a canonical decimal string ([-]digits[.digits], no redundant leading
\* zero in the integer part, no trailing zero in the fractional part), parsed
\* and rendered, comes back character for character; so does a 30-digit
\* integer.
C1_RoundTrip ==
    (pc = "rendered" /\ hist = <<>> /\ input.kind = "string"
        /\ Canonical(input.value))
    => text = input.value

C1_Witness ==
    /\ pc = "rendered" /\ hist = <<>> /\ input.kind = "string"
    /\ Canonical(input.value) /\ Len(input.value) = 30
    /\ text = input.value

\* C2: changeScale(v, delta) denotes the same number as v for every delta:
\* sign * digits * 10^(-scale) is the same before and after.
C2_ValuePreserved == Rescaled => SameValue(fd.value, src.value)

\* C3: round(v, places, "half-up") with v.scale > places >= 0 has the sign of
\* v and digits = quotient + 1 when twice the remainder of v.digits by
\* 10^(scale - places) reaches 10^(scale - places), digits = quotient
\* otherwise; the magnitude is the same for +v and -v.
C3_HalfUp ==
    (Rounded /\ LastOp.mode = "half-up" /\ IsWhole(LastOp.arg)
        /\ LastOp.arg >= 0 /\ src.value.scale > LastOp.arg \div 2)
    => LET v == src.value
           power == BigPow10(v.scale - LastOp.arg \div 2)
           quotient == BigDiv(v.digitsInteger, power)
           remainder == BigSub(v.digitsInteger, BigMul(quotient, power))
           mirrored == [v EXCEPT !.sign = 0 - v.sign]
       IN  /\ IsQuotient(quotient, v.digitsInteger, power)
           /\ fd.value.digitsInteger =
                 IF BigGE(BigMul(remainder, <<2>>), power)
                 THEN BigAdd(quotient, <<1>>) ELSE quotient
           /\ fd.value.sign = v.sign
           /\ roundFixedDecimal(mirrored, LastOp.arg, "half-up").digitsInteger
                 = fd.value.digitsInteger

C3_Witness ==
    /\ Rounded /\ LastOp.mode = "half-up" /\ LastOp.arg = Whole(1)
    /\ src.value = [sign |-> -1, digitsInteger |-> <<1, 2, 5>>, scale |-> 2]
    /\ fd.value = [sign |-> -1, digitsInteger |-> <<1, 3>>, scale |-> 1]

\* C4: round(v, places, "trunc") with v.scale > places >= 0 has digits equal
\* to the integer quotient of v.digits by 10^(scale - places), never one
\* more, whatever the remainder.
C4_Trunc ==
    (Rounded /\ LastOp.mode = "trunc" /\ IsWhole(LastOp.arg)
        /\ LastOp.arg >= 0 /\ src.value.scale > LastOp.arg \div 2)
    => IsQuotient(fd.value.digitsInteger, src.value.digitsInteger,
                  BigPow10(src.value.scale - LastOp.arg \div 2))

C4_Witness ==
    /\ Rounded /\ LastOp.mode = "trunc" /\ LastOp.arg = Whole(2)
    /\ src.value = [sign |-> 1, digitsInteger |-> <<1, 9, 9, 9>>, scale |-> 3]
    /\ fd.value = [sign |-> 1, digitsInteger |-> <<1, 9, 9>>, scale |-> 2]

\* C5: a string coefficient e exponent (coefficient digits[.digits]) parses
\* to exactly the FixedDecimal of the plain decimal string that has the
\* decimal point moved by the exponent.
C5_ExponentExpansion ==
    (ParsedString /\ ExponentForm(input.value))
    => fd = parseToFixedDecimal(StringInput(ShiftedPlain(input.value)))

C5_Witness ==
    /\ ParsedString /\ input.value = <<"4", ".", "5", "e", "-", "3">>
    /\ ShiftedPlain(input.value) = <<"0", ".", "0", "0", "4", "5">>
    /\ fd = Return([sign |-> 1, digitsInteger |-> <<4, 5>>, scale |-> 4])

\* C6: every string that denotes zero with a leading '-' ("-0", "-0.00",
\* "-0e3") parses to sign = +1, digits = 0, scale = 0, as "0" does.
C6_SignNormalized ==
    (ParsedString /\ fd.tag = "ok" /\ fd.value.digitsInteger = <<0>>
        /\ Head(Trim(input.value)) = "-"
        /\ CountOf(input.value, {"0"}) > 0)
    => fd.value = [sign |-> 1, digitsInteger |-> <<0>>, scale |-> 0]

C8_Render ==
    (pc = "rendered" /\ fd.value.scale >= 0)
    => LET v == fd.value
           digitText == BigToString(v.digitsInteger)
           body == IF v.sign = -1 THEN Tail(text) ELSE text
           pointAt == Len(body) - v.scale
           shown == SubSeq(body, 1, pointAt - 1)
                        \o SubSeq(body, pointAt + 1, Len(body))
       IN  /\ v.sign = -1 => text # <<>> /\ Head(text) = "-"
           /\ AllDigits(<<Head(body)>>)
           /\ v.scale = 0 => body = digitText
           /\ v.scale > 0 =>
                 /\ pointAt >= 2 /\ body[pointAt] = "."
                 /\ AllDigits(shown)
                 /\ Len(body) - pointAt = v.scale
                 /\ shown = Repeat0(v.scale + 1 - Len(digitText)) \o digitText
           /\ v.scale >= Len(digitText) /\ v.scale > 0 =>
                 body = <<"0", ".">> \o Repeat0(v.scale - Len(digitText))
                            \o digitText

C8_Witness ==
    /\ pc = "rendered" /\ fd.value.sign = -1
    /\ fd.value.scale > Len(BigToString(fd.value.digitsInteger))
    /\ fd.value.digitsInteger # <<0>>
    /\ Len(text) = fd.value.scale + 3

\* C9: round(v, places, mode) with places >= v.scale returns the sign,
\* digits and scale of v unchanged, and so renders like v.
C9_NoopRound ==
    (Rounded /\ LastOp.arg >= Whole(src.value.scale))
    => /\ fd.value = src.value
       /\ fixedDecimalToStr(fd.value) = fixedDecimalToStr(src.value)

C9_Witness ==
    /\ Rounded /\ LastOp.arg > Whole(src.value.scale)
    /\ src.value.scale > 0 /\ src.value.digitsInteger # <<0>>
    /\ fd.value = src.value

\* C10 as stated: a string with an exponent marker and a malformed
\* coefficient/exponent structure, such as "1.2.3e5", makes parse raise the
\* error of the expander ('Failed to parse exponential notation.').
C10_MalformedExponent ==
    (ParsedString /\ HasExponentMarker(Processed(input.value))
        /\ ~ExponentGrammar(Processed(input.value)))
    => fd = Throw(ErrExponential)

\* C10 amended: a string with an exponent marker that is not of the form
\* digits*[.]digits*(e|E)[+|-]digits+ after trimming, comma replacement and
\* sign removal, such as "1.2.3e5", makes parse raise the normalizer's
\* 'Invalid numeric string.'; it is no value and not the expander's error.
C10_InvalidFormat ==
    (ParsedString /\ HasExponentMarker(Processed(input.value))
        /\ ~ExponentGrammar(Processed(input.value)))
    => fd = Throw(ErrInvalid) /\ pc = "threw"

C10_Witness ==
    /\ ParsedString /\ input.value = <<"1", ".", "2", ".", "3", "e", "5">>
    /\ fd = Throw(ErrInvalid)

\* C11: a string that, after trimming, replacing the first comma and removing
\* one leading sign, is neither digits*[.]digits* nor that followed by
\* (e|E)[+|-]digits+ makes parse raise 'Invalid numeric string.' and yield no
\* value.
C11_InvalidFormat ==
    (ParsedString /\ ~PlainGrammar(Processed(input.value))
        /\ ~ExponentGrammar(Processed(input.value)))
    => fd = Throw(ErrInvalid) /\ pc = "threw"

C11_Witness ==
    /\ ParsedString
    /\ input.value = <<"1", "2", ".", "3", "4", ".", "5", "6">>
    /\ ~PlainGrammar(Processed(input.value))
    /\ fd = Throw(ErrInvalid) /\ pc = "threw"

\* C12: parse of a number that is NaN, +Infinity or -Infinity raises 'Input
\* number is not finite.'; of a string that is empty or holds only blanks,
\* 'Input string is empty.'; of an input that is neither bigint, number nor
\* string, 'Unsupported input type.'; none of them yields a value.
C12_InputKindErrors ==
    Parsed =>
        /\ (input.kind = "number" /\ input.class # "finite")
              => fd = Throw(ErrNotFinite) /\ pc = "threw"
        /\ (input.kind = "string" /\ \A i \in 1..Len(input.value) : input.value[i] = " ")
              => fd = Throw(ErrEmpty) /\ pc = "threw"
        /\ input.kind \notin {"bigint", "number", "string"}
              => fd = Throw(ErrUnsupported) /\ pc = "threw"

C12_Witness ==
    /\ Parsed /\ input = StringInput(<<" ", " ">>)
    /\ fd = Throw(ErrEmpty) /\ pc = "threw"

\* C13 as stated: when parsing the input raises an error, the composite
\* propagates it if throwOnError is set and otherwise returns the fallback
\* the caller specified, 0 when none was specified.
C13_FallbackPolicy ==
    (Called("numNormalize") /\ ParseFails)
    => out = IF DefaultThrowError(call.throwError) THEN parseToFixedDecimal(input)
             ELSE Return(NumberOfArg(call.fallback))

\* C13 amended: when parsing the input raises an error, numNormalize
\* propagates that error if throwError is true and otherwise returns 0,
\* whatever else the caller passes; formatToNum, which has no such flag,
\* always propagates it.
C13_ErrorPolicy ==
    /\ (Called("numNormalize") /\ ParseFails)
          => /\ out = IF DefaultThrowError(call.throwError)
                      THEN parseToFixedDecimal(input) ELSE Return(NumberZero)
             /\ pc = IF DefaultThrowError(call.throwError) THEN "threw" ELSE "returned"
    /\ (Called("formatToNum") /\ ParseFails)
          => out = parseToFixedDecimal(input) /\ pc = "threw"

C13_Witness ==
    /\ Called("numNormalize") /\ ParseFails
    /\ input = StringInput(<<"1", "2", ".", "3", "4", ".", "5", "6">>)
    /\ call.throwError = Given(FALSE) /\ call.fallback = Given(Whole(5))
    /\ out = Return(NumberZero) /\ pc = "returned"

\* C14: for an input that parses, the composite called with places > 1
\* returns the number denoted by round(parse(input), places, "half-up"); with
\* places <= 1 or no places it returns the number denoted by parse(input)
\* itself, all of its digits kept.
C14_RoundingRule ==
    (pc \in {"returned", "threw"} /\ ~ParseFails)
    => LET parsed == parseToFixedDecimal(input).value
           places == DefaultRound(call.round)
       IN  /\ pc = "returned" /\ out.tag = "ok"
           /\ places > Whole(1) =>
                 Denotes(out.value, roundFixedDecimal(parsed, places, "half-up"))
           /\ places <= Whole(1) =>
                 /\ Denotes(out.value, parsed)
                 /\ out.value.scale = parsed.scale
                 /\ out.value.digits = parsed.digitsInteger

C14_Witness ==
    /\ Called("formatToNum")
    /\ input = StringInput(<<"1", "0", "0", "0", ".", "5", "5", "5">>)
    /\ call.round = Given(Whole(1))
    /\ out = Return([negative |-> FALSE, digits |-> <<1, 0, 0, 0, 5, 5, 5>>, scale |-> 3])

\* C15: toH and toGH return 0 and raise nothing whenever their value is not
\* numeric (the empty string, null, NaN, any value that does not parse), for
\* every unit.
C15_NonNumericZero ==
    ((Called("toH") \/ Called("toGH")) /\ ParseFails)
    => pc = "returned" /\ out = Return(NumberZero)

C18_ScaleNonNegative ==
    \A i \in 1..Len(heap.objs) : heap.objs[i].scale >= 0

\* C19: in every FixedDecimal produced by parse or reached from it through
\* round and changeScale calls, digits = 0 implies sign = +1.
C19_ZeroSign ==
    \A i \in 1..Len(heap.objs) :
        heap.objs[i].digitsInteger = <<0>> => heap.objs[i].sign = 1

\* C20: every FixedDecimal the core holds, produced by parse or by round and
\* changeScale applied to a parse result, is normalized: no trailing
\* fractional zero when scale > 0, and zero held as digits = 0, scale = 0.
C20_AllNormalized ==
    \A i \in 1..Len(heap.objs) : Normalized(heap.objs[i])

\* C20, amended: every FixedDecimal produced by parse is normalized, whatever
\* is done with it afterwards; the results of round and changeScale need not
\* be.
C20_ParseNormalized ==
    heap.objs # <<>>
    => /\ heap.objs[1] = parseToFixedDecimal(input).value
       /\ Normalized(heap.objs[1])

\* a parsed text with trailing fractional zeros is held without them, and a
\* rounding of it has left a trailing zero in its own result
C20_Witness ==
    /\ hist # <<>>
    /\ input = StringInput(<<".", "5", "0">>)
    /\ heap.objs[1] = [sign |-> 1, digitsInteger |-> <<5>>, scale |-> 1]
    /\ LastOp.name = "round"
    /\ ~Normalized(fd.value)

C22_ExpanderValidates ==
    (Called("convertExponentialToParts") /\ ~ExpanderShape(input.value))
    => pc = "threw" /\ out = Throw(ErrExponential)

\* C23: for every accepted string without an exponent marker the normalizer
\* returns integerPart = "0" when no digit precedes the decimal point and
\* fractionalPart = "" when there is no point or no digit after it; otherwise
\* the parts are the digits before and after the point, unchanged.
C23_PlainDefaults ==
    (Called("normalizeToDecimalComponents") /\ input.kind = "string"
        /\ pc = "returned" /\ ~HasExponentMarker(input.value))
    => LET pieces == SplitOn(Processed(input.value), {"."})
       IN  /\ out.value.integerPart
                 = IF pieces[1] = <<>> THEN <<"0">> ELSE pieces[1]
           /\ out.value.fractionalPart
                 = IF Len(pieces) >= 2 THEN pieces[2] ELSE <<>>

C26_IntegerNumber ==
    (Parsed /\ input.kind = "number" /\ input.class = "finite" /\ input.scale = 0)
    => LET below == input.negative /\ input.digits # <<0>>
           expected == [sign |-> IF below THEN -1 ELSE 1,
                        digitsInteger |-> input.digits,
                        scale |-> 0]
       IN  /\ fd = Return(expected)
           /\ fd = parseToFixedDecimal([kind |-> "bigint", negative |-> below,
                                        magnitude |-> input.digits])
           /\ fd = parseToFixedDecimal(StringInput(
                       (IF below THEN <<"-">> ELSE <<>>) \o BigToString(input.digits)))

\* -1500: the zeros of the integer are kept, the padding of the exponential
\* form is not
C26_Witness ==
    /\ Parsed /\ input.kind = "number" /\ input.class = "finite"
    /\ input.negative /\ input.digits = <<1, 5, 0, 0>> /\ input.scale = 0
    /\ fd = Return([sign |-> -1, digitsInteger |-> <<1, 5, 0, 0>>, scale |-> 0])

\* C27: for every string s that parse accepts, parsing the rendering of
\* parse(s) returns the sign, digits and scale of parse(s) again, also for
\* redundant zeros, exponents, a comma and a signed zero.
C27_ParseOfRender ==
    (pc = "rendered" /\ hist = <<>> /\ input.kind = "string")
    => parseToFixedDecimal(StringInput(text)) = fd

\* "-0e3": a signed zero written with an exponent
C27_Witness ==
    /\ pc = "rendered" /\ hist = <<>>
    /\ input = StringInput(<<"-", "0", "e", "3">>)
    /\ text = <<"-", "0">>
    /\ fd = Return([sign |-> -1, digitsInteger |-> <<0>>, scale |-> 0])

\* C28: for v.scale > places >= 0 the digits d' of round(v, places, "half-up")
\* satisfy |d' x 10^(scale - places) - d| <= 10^(scale - places) / 2, and d'
\* is the truncated quotient of d by 10^(scale - places) or that quotient
\* plus one, also when the increment carries into a new leading digit.
C28_HalfUpBound ==
    (Rounded /\ LastOp.mode = "half-up" /\ LastOp.arg >= 0
        /\ src.value.scale > LastOp.arg \div 2)
    => LET unit == BigPow10(src.value.scale - LastOp.arg \div 2)
           d == src.value.digitsInteger
           back == BigMul(fd.value.digitsInteger, unit)
           error == IF BigGE(back, d) THEN BigSub(back, d) ELSE BigSub(d, back)
       IN  /\ BigGE(unit, BigMul(error, <<2>>))
           /\ \/ IsQuotient(fd.value.digitsInteger, d, unit)
              \/ /\ fd.value.digitsInteger # <<0>>
                 /\ IsQuotient(BigSub(fd.value.digitsInteger, <<1>>), d, unit)

\* 9.99 to one place: 10.0, the increment carries into a new leading digit
C28_Witness ==
    /\ Rounded /\ Len(hist) = 1 /\ LastOp.mode = "half-up" /\ LastOp.arg = Whole(1)
    /\ input = StringInput(<<"9", ".", "9", "9">>)
    /\ src.value.digitsInteger = <<9, 9, 9>>
    /\ fd.value = [sign |-> 1, digitsInteger |-> <<1, 0, 0>>, scale |-> 1]

C30_RoundMonotone ==
    Called("roundFixedDecimal")
    => /\ pc = "returned"
       /\ BigGE(out.value.b.digitsInteger, out.value.a.digitsInteger)
       /\ out.value.a.scale = out.value.b.scale

\* 0.49 and 0.50 rounded to 0 places: 0 and 1
C30_Witness ==
    /\ Called("roundFixedDecimal")
    /\ call.arg = Whole(0) /\ call.mode = "half-up"
    /\ input.a = [sign |-> 1, digitsInteger |-> <<4, 9>>, scale |-> 2]
    /\ input.b = [sign |-> 1, digitsInteger |-> <<5, 0>>, scale |-> 2]
    /\ out.value.a.digitsInteger = <<0>>
    /\ out.value.b.digitsInteger = <<1>>

====
